---------------------------- MODULE Spec2Model ----------------------------
(***************************************************************************)
(* A model of dmsformat: fromDMS, fromDMM, isDMS, isDMM and toDMS.         *)
(*                                                                         *)
(* Strings are sequences of characters.  A character is written as a      *)
(* one-character string where ASCII has it and by name otherwise:          *)
(*   "deg" is U+00B0, "ord" U+00BA, "prime" U+2032, "dprime" U+2033,       *)
(*   "rsq" U+2019, "lsq" U+2018, "dq" the double quote, "tab" U+0009.      *)
(*                                                                         *)
(* Numbers are IEEE 754 doubles, rounded as the language rounds them.      *)
(***************************************************************************)
EXTENDS Integers, Sequences, FiniteSets, TLC

VARIABLES lastIndex, call, written

vars == <<lastIndex, call, written>>

-----------------------------------------------------------------------------
(* Characters and the character classes of the two regular expressions.    *)

Digits == {"0", "1", "2", "3", "4", "5", "6", "7", "8", "9"}

DigitValue(c) ==
  CASE c = "0" -> 0 [] c = "1" -> 1 [] c = "2" -> 2 [] c = "3" -> 3
    [] c = "4" -> 4 [] c = "5" -> 5 [] c = "6" -> 6 [] c = "7" -> 7
    [] c = "8" -> 8 [] c = "9" -> 9

DigitChar(n) ==
  CASE n = 0 -> "0" [] n = 1 -> "1" [] n = 2 -> "2" [] n = 3 -> "3"
    [] n = 4 -> "4" [] n = 5 -> "5" [] n = 6 -> "6" [] n = 7 -> "7"
    [] n = 8 -> "8" [] n = 9 -> "9"

\* The end of the string: what At gives past the last character.
EOS == "eos"

At(s, i) == IF i >= 1 /\ i <= Len(s) THEN s[i] ELSE EOS

IsDigit(c) == c \in Digits

\* \s of a regular expression, and what String.prototype.trim removes.
IsSpace(c) == c \in {" ", "tab"}

\* [NSEW] under the i flag.
IsHemisphere(c) == c \in {"N", "S", "E", "W", "n", "s", "e", "w"}

\* [°º:d\s] under the i flag.
IsDegreeSep(c) == c \in {"deg", "ord", ":", "d", "D"} \/ IsSpace(c)

\* ['’‘′:]
IsMinuteSep(c) == c \in {"'", "rsq", "lsq", "prime", ":"}

\* DOES_CONTAIN_SPECIAL_CHARS: [NSEW°'’‘′:"″], no i flag.
IsSpecialChar(c) ==
  c \in {"N", "S", "E", "W", "deg", "'", "rsq", "lsq", "prime", ":", "dq", "dprime"}

\* The characters a..b of s that exist.
Slice(s, a, b) ==
  LET lo == IF a < 1 THEN 1 ELSE a
      hi == IF b > Len(s) THEN Len(s) ELSE b
  IN  IF lo > hi THEN << >> ELSE SubSeq(s, lo, hi)

\* String.prototype.substr(start) with 0 <= start.
Substr(s, start) == Slice(s, start + 1, Len(s))

RECURSIVE TrimLeft(_)
TrimLeft(s) ==
  IF s /= << >> /\ IsSpace(Head(s)) THEN TrimLeft(Tail(s)) ELSE s

RECURSIVE TrimRight(_)
TrimRight(s) ==
  IF s /= << >> /\ IsSpace(s[Len(s)]) THEN TrimRight(Slice(s, 1, Len(s) - 1)) ELSE s

Trim(s) == TrimRight(TrimLeft(s))

-----------------------------------------------------------------------------
(* DMS_REGREX.  Every element after the degrees is optional, so once the   *)
(* degrees have matched the greedy choice of each element is final; the    *)
(* only backtracking is out of the minutes group when no minute separator  *)
(* follows its number.                                                     *)

\* \d+ : the index after the longest run of digits from i (i when there is none).
RECURSIVE DigitsEnd(_, _)
DigitsEnd(s, i) == IF IsDigit(At(s, i)) THEN DigitsEnd(s, i + 1) ELSE i

\* (?:\.\d+)? from i.
FractionEnd(s, i) ==
  IF At(s, i) = "." /\ IsDigit(At(s, i + 1)) THEN DigitsEnd(s, i + 1) ELSE i

\* \d+(?:\.\d+)? from i (i when it does not match).
NumberEnd(s, i) ==
  LET j == DigitsEnd(s, i) IN IF j = i THEN i ELSE FractionEnd(s, j)

\* \d{1,2}(?:\.\d+)? from i (i when it does not match).
SecondsEnd(s, i) ==
  IF ~IsDigit(At(s, i)) THEN i
  ELSE FractionEnd(s, IF IsDigit(At(s, i + 1)) THEN i + 2 ELSE i + 1)

\* (?:"|″|’’|'')? from i.
SecondUnitEnd(s, i) ==
  IF At(s, i) \in {"dq", "dprime"} THEN i + 1
  ELSE IF At(s, i) = "rsq" /\ At(s, i + 1) = "rsq" THEN i + 2
  ELSE IF At(s, i) = "'" /\ At(s, i + 1) = "'" THEN i + 2
  ELSE i

OptSpace(s, i) == IF IsSpace(At(s, i)) THEN i + 1 ELSE i

OptHemisphere(s, i) == IF IsHemisphere(At(s, i)) THEN i + 1 ELSE i

OptMinus(s, i) == IF At(s, i) = "-" THEN i + 1 ELSE i

OptDegreeSep(s, i) == IF IsDegreeSep(At(s, i)) THEN i + 1 ELSE i

\* The groups of the match from p, given where its parts end: the
\* hemisphere prefix before a, the minus before b, the degrees before c,
\* and from e (after the degree separator and a space) a number up to f,
\* the seconds from h up to k if the minute separator is at f.
\* m0 is the matched text, m1..m6 the groups, << >> for a group that did
\* not take part (undefined).
MatchGroups(s, p, a, b, c, e, f, h, k) ==
  LET hasMin == f > e /\ IsMinuteSep(At(s, f))
      hasSec == hasMin /\ k > h
      g == IF hasSec THEN SecondUnitEnd(s, k) ELSE IF hasMin THEN h ELSE e
      t == OptSpace(s, g)
      z == OptHemisphere(s, t)
  IN  [ ok |-> c > b,
        m0 |-> Slice(s, p, z - 1),
        m1 |-> Slice(s, p, a - 1),
        m2 |-> Slice(s, a, b - 1),
        m3 |-> Slice(s, b, c - 1),
        m4 |-> IF hasMin THEN Slice(s, e, f - 1) ELSE << >>,
        m5 |-> IF hasSec THEN Slice(s, h, k - 1) ELSE << >>,
        m6 |-> Slice(s, t, z - 1) ]

\* The match starting exactly at p.
MatchAt(s, p) ==
  LET a == OptHemisphere(s, p)
      b == OptMinus(s, a)
      c == NumberEnd(s, b)
      e == OptSpace(s, OptDegreeSep(s, c))
      f == NumberEnd(s, e)
      h == OptSpace(s, f + 1)
      k == SecondsEnd(s, h)
  IN  MatchGroups(s, p, a, b, c, e, f, h, k)

NoMatch ==
  [ok |-> FALSE, m0 |-> << >>, m1 |-> << >>, m2 |-> << >>, m3 |-> << >>,
   m4 |-> << >>, m5 |-> << >>, m6 |-> << >>]

\* A match can start at p: a digit follows the optional prefix and minus.
StartsAt(s, p) == IsDigit(At(s, OptMinus(s, OptHemisphere(s, p))))

\* The least element of a non-empty set of indices.
Least(ps) == CHOOSE p \in ps : \A q \in ps : p <= q

\* String.prototype.match(DMS_REGREX): the match at the leftmost position
\* that has one.
MatchFrom(s, starts) == IF starts = {} THEN NoMatch ELSE MatchAt(s, Least(starts))

Match(s) == MatchFrom(s, {p \in 1..Len(s) : StartsAt(s, p)})

\* n characters "0".
RECURSIVE Zeros(_)
Zeros(n) == IF n <= 0 THEN << >> ELSE <<"0">> \o Zeros(n - 1)

-----------------------------------------------------------------------------
(* Numbers.  A JavaScript number is an IEEE 754 double: here               *)
(* [neg, man, exp], standing for (-1)^neg * man * 2^exp, with man an        *)
(* integer of exactly MantissaBits bits; Zero is apart (-0 and 0 are        *)
(* equal to every comparison of the program), and so is NaN.  Every         *)
(* operation computes its exact result and rounds it to the nearest double, *)
(* ties to even.  The integers behind man exceed the checker's, so they     *)
(* are kept as sequences of limbs below Base, least significant first,      *)
(* without a leading zero limb (<< >> is 0).                                *)

Base == 32768

LimbBits == 15

MantissaBits == 53

RECURSIVE Pow2(_)
Pow2(n) == IF n = 0 THEN 1 ELSE 2 * Pow2(n - 1)

RECURSIVE BitLen(_)
BitLen(n) == IF n = 0 THEN 0 ELSE 1 + BitLen(n \div 2)

Limb(a, i) == IF i <= Len(a) THEN a[i] ELSE 0

RECURSIVE ZeroLimbs(_)
ZeroLimbs(n) == IF n <= 0 THEN << >> ELSE <<0>> \o ZeroLimbs(n - 1)

RECURSIVE BNTrim(_)
BNTrim(a) ==
  IF a /= << >> /\ a[Len(a)] = 0 THEN BNTrim(SubSeq(a, 1, Len(a) - 1)) ELSE a

BNFromNat(n) ==
  BNTrim(<<n % Base, (n \div Base) % Base, n \div (Base * Base)>>)

BNIsOdd(a) == Limb(a, 1) % 2 = 1

BNBitLen(a) ==
  IF a = << >> THEN 0 ELSE LimbBits * (Len(a) - 1) + BitLen(a[Len(a)])

\* a + b + carry, from limb i on.
RECURSIVE BNAddFrom(_, _, _, _)
BNAddFrom(a, b, i, carry) ==
  IF i > Len(a) /\ i > Len(b) THEN (IF carry = 0 THEN << >> ELSE <<carry>>)
  ELSE <<(Limb(a, i) + Limb(b, i) + carry) % Base>>
         \o BNAddFrom(a, b, i + 1, (Limb(a, i) + Limb(b, i) + carry) \div Base)

BNAdd(a, b) == BNAddFrom(a, b, 1, 0)

\* a - b - borrow for a >= b, from limb i on.
RECURSIVE BNSubFrom(_, _, _, _)
BNSubFrom(a, b, i, borrow) ==
  IF i > Len(a) THEN << >>
  ELSE <<(Base + a[i] - Limb(b, i) - borrow) % Base>>
         \o BNSubFrom(a, b, i + 1, IF a[i] - Limb(b, i) - borrow < 0 THEN 1 ELSE 0)

BNSub(a, b) == BNTrim(BNSubFrom(a, b, 1, 0))

RECURSIVE BNCmpFrom(_, _, _)
BNCmpFrom(a, b, i) ==
  IF i = 0 THEN 0
  ELSE IF a[i] < b[i] THEN 0 - 1
  ELSE IF a[i] > b[i] THEN 1
  ELSE BNCmpFrom(a, b, i - 1)

\* -1, 0 or 1 as a is below, equal to or above b.
BNCmp(a, b) ==
  IF Len(a) < Len(b) THEN 0 - 1
  ELSE IF Len(a) > Len(b) THEN 1
  ELSE BNCmpFrom(a, b, Len(a))

\* a * c + carry for c <= Base, from limb i on.
RECURSIVE BNMulFrom(_, _, _, _)
BNMulFrom(a, c, i, carry) ==
  IF i > Len(a) THEN (IF carry = 0 THEN << >> ELSE <<carry>>)
  ELSE <<(a[i] * c + carry) % Base>> \o BNMulFrom(a, c, i + 1, (a[i] * c + carry) \div Base)

BNMulSmall(a, c) == BNTrim(BNMulFrom(a, c, 1, 0))

\* The quotient and the remainder of a by d <= Base: q holds the quotient
\* limbs above i, r the remainder so far.
RECURSIVE BNDivFrom(_, _, _, _, _)
BNDivFrom(a, d, i, r, q) ==
  IF i = 0 THEN [q |-> BNTrim(q), r |-> r]
  ELSE BNDivFrom(a, d, i - 1, (r * Base + a[i]) % d, <<(r * Base + a[i]) \div d>> \o q)

BNDivSmall(a, d) == BNDivFrom(a, d, Len(a), 0, << >>)

\* a * 2^n.
BNShiftLeft(a, n) ==
  IF a = << >> THEN << >>
  ELSE ZeroLimbs(n \div LimbBits) \o BNMulSmall(a, Pow2(n % LimbBits))

\* The limbs of a from limb k + 1 on, divided by d; sticky tells the limbs
\* and the remainder dropped are not all zero.
BNDropped(a, k, quot) ==
  [q |-> quot.q,
   sticky |-> quot.r /= 0 \/ \E i \in 1..k : Limb(a, i) /= 0]

\* floor(a / 2^n), and whether a bit was lost.
BNShiftRight(a, n) ==
  BNDropped(a, n \div LimbBits,
            BNDivSmall(Slice(a, (n \div LimbBits) + 1, Len(a)), Pow2(n % LimbBits)))

\* a * 10^p.
RECURSIVE BNTimesTen(_, _)
BNTimesTen(a, p) ==
  IF p <= 0 \/ a = << >> THEN a ELSE BNTimesTen(BNMulSmall(a, 10), p - 1)

\* floor(x.q / 10^k), x.sticky kept once a division left a remainder.
RECURSIVE BNOverTen(_, _)
BNOverTen(x, k) ==
  IF k <= 0 \/ x.q = << >> THEN x
  ELSE BNOverTen([q |-> BNDivSmall(x.q, 10).q,
                  sticky |-> x.sticky \/ BNDivSmall(x.q, 10).r /= 0], k - 1)

\* The integer written with the decimal digits ds after those of acc (acc
\* is looked at in every step, so that it is computed before the next).
RECURSIVE BNFromDigits(_, _)
BNFromDigits(ds, acc) ==
  IF ds = << >> \/ Len(acc) < 0 THEN acc
  ELSE BNFromDigits(Tail(ds), BNMulFrom(acc, 10, 1, DigitValue(Head(ds))))

\* The decimal digits of a before the digits ds (none for 0).
RECURSIVE BNToDigits(_, _)
BNToDigits(a, ds) ==
  IF a = << >> THEN ds
  ELSE BNToDigits(BNDivSmall(a, 10).q, <<DigitChar(BNDivSmall(a, 10).r)>> \o ds)

Zero == [neg |-> FALSE, man |-> << >>, exp |-> 0]

\* Not a number, and also undefined: isNumber rejects both alike.
NaN == [nan |-> TRUE]

isNumber(v) == v /= NaN

\* The double of magnitude m * 2^e, m of at most MantissaBits bits.
Normal(neg, m, e) ==
  IF BNBitLen(m) > MantissaBits
  THEN [neg |-> neg, man |-> BNDivSmall(m, 2).q, exp |-> e + 1]
  ELSE [neg |-> neg, man |-> m, exp |-> e]

\* q is the first MantissaBits + 1 bits of a magnitude, its last the
\* rounding bit: round to nearest, ties to even; inexact tells bits below q
\* were lost.
RoundHalfEven(neg, half, odd, inexact, q, e) ==
  Normal(neg, IF half /\ (inexact \/ odd) THEN BNAdd(q, <<1>>) ELSE q, e)

RoundBits(neg, s, e, sticky) ==
  RoundHalfEven(neg, BNIsOdd(s.q), BNIsOdd(BNDivSmall(s.q, 2).q), s.sticky \/ sticky,
                BNDivSmall(s.q, 2).q, e + 1)

RoundLen(neg, man, e, sticky, len) ==
  IF len = 0 THEN Zero
  ELSE IF len <= MantissaBits
    THEN [neg |-> neg, man |-> BNShiftLeft(man, MantissaBits - len),
          exp |-> e - (MantissaBits - len)]
  ELSE RoundBits(neg, BNShiftRight(man, len - MantissaBits - 1),
                 e + (len - MantissaBits - 1), sticky)

\* The double nearest to (-1)^neg * (man + r) * 2^e, where 0 <= r < 1 and
\* sticky tells r > 0 (then man has more than MantissaBits + 1 bits).
RoundDouble(neg, man, e, sticky) == RoundLen(neg, man, e, sticky, BNBitLen(man))

IsZero(x) == x.man = << >>

\* The double of the integer n.
Whole(n) == RoundDouble(n < 0, BNFromNat(IF n < 0 THEN 0 - n ELSE n), 0, FALSE)

Negate(x) == IF IsZero(x) THEN x ELSE [x EXCEPT !.neg = ~x.neg]

Abs(x) == [x EXCEPT !.neg = FALSE]

\* sign * x for sign 1 or -1.
Times(sign, x) == IF sign < 0 THEN Negate(x) ELSE x

\* x * c for an integer 0 < c <= Base.
TimesSmall(x, c) == RoundDouble(x.neg, BNMulSmall(x.man, c), x.exp, FALSE)

OverRounded(x, quot) == RoundDouble(x.neg, quot.q, x.exp - 2 * LimbBits, quot.r /= 0)

\* x / n for an integer 0 < n < Base.
Over(x, n) ==
  IF IsZero(x) THEN Zero
  ELSE OverRounded(x, BNDivSmall(BNShiftLeft(x.man, 2 * LimbBits), n))

\* -1, 0 or 1 as the magnitude of x is below, equal to or above that of y.
MagCmp(x, y) ==
  IF IsZero(x) THEN (IF IsZero(y) THEN 0 ELSE 0 - 1)
  ELSE IF IsZero(y) THEN 1
  ELSE IF x.exp < y.exp THEN 0 - 1
  ELSE IF x.exp > y.exp THEN 1
  ELSE BNCmp(x.man, y.man)

Cmp(x, y) ==
  IF x.neg /= y.neg THEN (IF x.neg THEN 0 - 1 ELSE 1)
  ELSE IF x.neg THEN 0 - MagCmp(x, y)
  ELSE MagCmp(x, y)

LessEq(x, y) == Cmp(x, y) <= 0

Less(x, y) == Cmp(x, y) < 0

\* a * 2^e and b * 2^e added with their signs.
PlusAligned(xneg, a, yneg, b, e) ==
  IF xneg = yneg THEN RoundDouble(xneg, BNAdd(a, b), e, FALSE)
  ELSE IF BNCmp(a, b) > 0 THEN RoundDouble(xneg, BNSub(a, b), e, FALSE)
  ELSE IF BNCmp(a, b) < 0 THEN RoundDouble(yneg, BNSub(b, a), e, FALSE)
  ELSE Zero

PlusAt(x, y, e) ==
  PlusAligned(x.neg, BNShiftLeft(x.man, x.exp - e), y.neg, BNShiftLeft(y.man, y.exp - e), e)

Plus(x, y) ==
  IF IsZero(x) THEN y
  ELSE IF IsZero(y) THEN x
  ELSE PlusAt(x, y, IF x.exp < y.exp THEN x.exp ELSE y.exp)

Minus(x, y) == Plus(x, Negate(y))

\* Math.floor(x) for x >= 0.
Floor(x) ==
  IF IsZero(x) \/ x.exp >= 0 THEN x
  ELSE RoundDouble(FALSE, BNShiftRight(x.man, 0 - x.exp).q, 0, FALSE)

RECURSIVE DigitsValue(_)
DigitsValue(ds) ==
  IF ds = << >> THEN 0
  ELSE 10 * DigitsValue(Slice(ds, 1, Len(ds) - 1)) + DigitValue(ds[Len(ds)])

DecimalRounded(x, shift) == RoundDouble(FALSE, x.q, 0 - shift, x.sticky)

DecimalShifted(n, k, shift) ==
  DecimalRounded(BNOverTen([q |-> BNShiftLeft(n, shift), sticky |-> FALSE], k), shift)

\* The double nearest to the number with integer digits is and fractional
\* digits fs.
Decimal(is, fs) ==
  DecimalShifted(BNFromDigits(is \o fs, << >>), Len(fs), 4 * LimbBits + 4 * Len(fs))

\* Number(text) for a text matched by \d+(\.\d+)?.
Number(text) ==
  LET j == DigitsEnd(text, 1)
  IN  Decimal(Slice(text, 1, j - 1), Slice(text, j + 1, Len(text)))

inRange(value, a, b) == LessEq(Whole(a), value) /\ LessEq(value, Whole(b))

-----------------------------------------------------------------------------
(* The sign table and the Decimal-Degree Extractor.                        *)

\* SIGN_INDEX[k]: 0 stands for undefined (a key the table lacks), which ||
\* passes over.
SIGN_INDEX(k) ==
  CASE k = <<"-">> -> -1
    [] k = <<"N">> -> 1
    [] k = <<"S">> -> -1
    [] k = <<"E">> -> 1
    [] k = <<"W">> -> -1
    [] OTHER -> 0

Ok(v) == [ok |-> TRUE, err |-> "", val |-> v]

Throw(msg) == [ok |-> FALSE, err |-> msg, val |-> << >>]

\* signOf without the minus sign.
signOfLetters(m) ==
  IF SIGN_INDEX(m.m1) /= 0 THEN SIGN_INDEX(m.m1)
  ELSE IF SIGN_INDEX(m.m6) /= 0 THEN SIGN_INDEX(m.m6)
  ELSE 1

\* SIGN_INDEX[m[2]] || SIGN_INDEX[m[1]] || SIGN_INDEX[m[6]] || 1
signOf(m) ==
  IF SIGN_INDEX(m.m2) /= 0 THEN SIGN_INDEX(m.m2)
  ELSE IF SIGN_INDEX(m.m1) /= 0 THEN SIGN_INDEX(m.m1)
  ELSE IF SIGN_INDEX(m.m6) /= 0 THEN SIGN_INDEX(m.m6)
  ELSE 1

\* decDegFrom with the seconds divided like minutes.
decDegFromSecondsBySixty(sign, degrees, minutes, seconds) ==
  IF ~inRange(degrees, 0, 180) THEN Throw("Degrees out of range")
  ELSE IF ~inRange(minutes, 0, 60) THEN Throw("Minutes out of range")
  ELSE IF ~inRange(seconds, 0, 60) THEN Throw("Seconds out of range")
  ELSE Ok(Times(sign, Plus(Plus(degrees, Over(minutes, 60)), Over(seconds, 60))))

\* decDegFrom with the degrees held to the range of a latitude.
decDegFromUpToNinety(sign, degrees, minutes, seconds) ==
  IF ~inRange(degrees, 0, 90) THEN Throw("Degrees out of range")
  ELSE IF ~inRange(minutes, 0, 60) THEN Throw("Minutes out of range")
  ELSE IF ~inRange(seconds, 0, 60) THEN Throw("Seconds out of range")
  ELSE Ok(Times(sign, Plus(Plus(degrees, Over(minutes, 60)), Over(seconds, 3600))))

\* decDegFrom with the upper ends of minutes and seconds left out.
decDegFromBelowSixty(sign, degrees, minutes, seconds) ==
  IF ~inRange(degrees, 0, 180) THEN Throw("Degrees out of range")
  ELSE IF ~(inRange(minutes, 0, 60) /\ Less(minutes, Whole(60)))
    THEN Throw("Minutes out of range")
  ELSE IF ~(inRange(seconds, 0, 60) /\ Less(seconds, Whole(60)))
    THEN Throw("Seconds out of range")
  ELSE Ok(Times(sign, Plus(Plus(degrees, Over(minutes, 60)), Over(seconds, 3600))))

\* The range checks and the result for the numbers of a match.
decDegFrom(sign, degrees, minutes, seconds) ==
  IF ~inRange(degrees, 0, 180) THEN Throw("Degrees out of range")
  ELSE IF ~inRange(minutes, 0, 60) THEN Throw("Minutes out of range")
  ELSE IF ~inRange(seconds, 0, 60) THEN Throw("Seconds out of range")
  ELSE Ok(Times(sign, Plus(Plus(degrees, Over(minutes, 60)), Over(seconds, 3600))))

decDegFromMatch(m) ==
  decDegFrom(signOf(m),
             Number(m.m3),
             IF m.m4 /= << >> THEN Number(m.m4) ELSE Whole(0),
             IF m.m5 /= << >> THEN Number(m.m5) ELSE Whole(0))

-----------------------------------------------------------------------------
(* fromDMS.  A returned coordinate is <<longitude, latitude>>.             *)

PARSE_STRING == "Could not parse string"

\* The text the longitude is searched in.
lonString(v, matchLat) ==
  IF matchLat.m1 /= << >> THEN Trim(Substr(v, Len(matchLat.m0) - 1))
  ELSE Trim(Substr(v, Len(matchLat.m0)))

\* coordinateOf with the latitude put first.
coordinateOfLatFirst(lon, lat) ==
  IF ~lon.ok THEN lon
  ELSE IF ~lat.ok THEN lat
  ELSE Ok(<<lat.val, lon.val>>)

\* [decDegFromMatch(matchLon), decDegFromMatch(matchLat)]: the longitude is
\* extracted first, and its failure is the one thrown.
coordinateOf(lon, lat) ==
  IF ~lon.ok THEN lon
  ELSE IF ~lat.ok THEN lat
  ELSE Ok(<<lon.val, lat.val>>)

\* fromMatches that falls back on the latitude match when the remainder
\* has no match.
fromMatchesLatOnly(matchLat, matchLon) ==
  IF ~matchLon.ok
  THEN coordinateOf(decDegFromMatch(matchLat), decDegFromMatch(matchLat))
  ELSE coordinateOf(decDegFromMatch(matchLon), decDegFromMatch(matchLat))

fromMatches(matchLat, matchLon) ==
  IF ~matchLon.ok THEN Throw(PARSE_STRING)
  ELSE coordinateOf(decDegFromMatch(matchLon), decDegFromMatch(matchLat))

fromLatMatch(v, matchLat) ==
  IF ~matchLat.ok THEN Throw(PARSE_STRING)
  ELSE fromMatches(matchLat, Match(lonString(v, matchLat)))

fromTrimmed(v) == fromLatMatch(v, Match(v))

fromDMS(value) == fromTrimmed(Trim(value))

-----------------------------------------------------------------------------
(* toDMS.  A format and a text are strings; optOptions is a record of the  *)
(* options given (<< >>, the record without fields, for undefined), and    *)
(* Undefined stands for a format or an option that is not given.  An       *)
(* element of a coordinate is a number, or NaN for an element that is not  *)
(* one and converts to NaN (such as 'a').                                  *)

Undefined == <<"undefined">>

NaNText == <<"N", "a", "N">>

UNITS == [degrees |-> <<"deg">>, minutes |-> <<"prime">>, seconds |-> <<"dprime">>]

\* The integer nearest to |x| * 10^p, the larger one of two.
FixedInteger(x, p) ==
  IF IsZero(x) THEN << >>
  ELSE IF x.exp >= 0 THEN BNShiftLeft(BNTimesTen(x.man, p), x.exp)
  ELSE BNDivSmall(BNAdd(BNShiftRight(BNTimesTen(x.man, p), 0 - x.exp - 1).q, <<1>>), 2).q

\* The digits ds with a point before the last p.
FixedText(ds, p) ==
  IF p = 0 THEN ds
  ELSE Slice(ds, 1, Len(ds) - p) \o <<".">> \o Slice(ds, Len(ds) - p + 1, Len(ds))

PadZeros(ds, n) == Zeros(n - Len(ds)) \o ds

\* Number.prototype.toFixed(p) (for a magnitude below 10^21).
toFixed(x, p) ==
  IF ~isNumber(x) THEN NaNText
  ELSE (IF x.neg THEN <<"-">> ELSE << >>)
         \o FixedText(PadZeros(BNToDigits(FixedInteger(x, p), << >>), p + 1), p)

\* The text of an integer-valued number, as string concatenation and
\* replace make it.
NumberToString(x) ==
  IF ~isNumber(x) THEN NaNText
  ELSE (IF x.neg THEN <<"-">> ELSE << >>)
         \o PadZeros(BNToDigits(FixedInteger(x, 0), << >>), 1)

\* computeFor with all the seconds left in seconds.
computeForSecondsTotal(initValue) ==
  LET degrees == Abs(initValue)
      degreesInt == Floor(degrees)
      degreesFrac == Minus(degrees, degreesInt)
      secondsTotal == TimesSmall(degreesFrac, 3600)
      minutes == Over(secondsTotal, 60)
      minutesInt == Floor(minutes)
  IN  [ initValue |-> initValue, degrees |-> degrees, degreesInt |-> degreesInt,
        degreesFrac |-> degreesFrac, secondsTotal |-> secondsTotal,
        minutes |-> minutes, minutesInt |-> minutesInt, seconds |-> secondsTotal ]

\* computeFor is handed the one-element array [initValue]; Math.abs and <
\* convert it to the number it holds, and every value computed from NaN is
\* NaN.
computeFor(initValue) ==
  IF ~isNumber(initValue)
  THEN [ initValue |-> NaN, degrees |-> NaN, degreesInt |-> NaN,
         degreesFrac |-> NaN, secondsTotal |-> NaN,
         minutes |-> NaN, minutesInt |-> NaN, seconds |-> NaN ]
  ELSE
  LET degrees == Abs(initValue)
      degreesInt == Floor(degrees)
      degreesFrac == Minus(degrees, degreesInt)
      secondsTotal == TimesSmall(degreesFrac, 3600)
      minutes == Over(secondsTotal, 60)
      minutesInt == Floor(minutes)
      seconds == Minus(secondsTotal, TimesSmall(minutesInt, 60))
  IN  [ initValue |-> initValue, degrees |-> degrees, degreesInt |-> degreesInt,
        degreesFrac |-> degreesFrac, secondsTotal |-> secondsTotal,
        minutes |-> minutes, minutesInt |-> minutesInt, seconds |-> seconds ]

\* computeCoordinateConfig with 0 counted as north and as east.
computeCoordinateConfigZeroNorth(coordinate) ==
  [ north |-> isNumber(coordinate[2]) /\ LessEq(Zero, coordinate[2]),
    east |-> isNumber(coordinate[1]) /\ LessEq(Zero, coordinate[1]),
    latValues |-> computeFor(coordinate[2]),
    lonValues |-> computeFor(coordinate[1]) ]

\* A comparison with NaN is false.
computeCoordinateConfig(coordinate) ==
  [ north |-> isNumber(coordinate[2]) /\ Less(Zero, coordinate[2]),
    east |-> isNumber(coordinate[1]) /\ Less(Zero, coordinate[1]),
    latValues |-> computeFor(coordinate[2]),
    lonValues |-> computeFor(coordinate[1]) ]

\* String.prototype.replace(/pat/g, rep) from position i on: every
\* occurrence of pat, left to right, none overlapping another.
RECURSIVE ReplaceFrom(_, _, _, _)
ReplaceFrom(s, pat, rep, i) ==
  IF i > Len(s) THEN << >>
  ELSE IF Slice(s, i, i + Len(pat) - 1) = pat
    THEN rep \o ReplaceFrom(s, pat, rep, i + Len(pat))
  ELSE <<s[i]>> \o ReplaceFrom(s, pat, rep, i + 1)

Replace(s, pat, rep) == ReplaceFrom(s, pat, rep, 1)

\* formatFor with a minus sign for 0 as well.
formatForMinusAtZero(format, options, values, X) ==
  Replace(Replace(Replace(Replace(Replace(Replace(
  Replace(Replace(Replace(Replace(Replace(Replace(format,
    <<"D", "D">>, NumberToString(values.degreesInt) \o UNITS.degrees),
    <<"d", "d">>, toFixed(values.degrees, options.decimalPlaces) \o UNITS.degrees),
    <<"D">>, NumberToString(values.degreesInt)),
    <<"d">>, toFixed(values.degrees, options.decimalPlaces)),
    <<"M", "M">>, NumberToString(values.minutesInt) \o UNITS.minutes),
    <<"m", "m">>, toFixed(values.minutes, options.decimalPlaces) \o UNITS.minutes),
    <<"M">>, NumberToString(values.minutesInt)),
    <<"m">>, toFixed(values.minutes, options.decimalPlaces)),
    <<"s", "s">>, toFixed(values.seconds, options.decimalPlaces) \o UNITS.seconds),
    <<"s">>, toFixed(values.seconds, options.decimalPlaces)),
    <<"-">>, IF isNumber(values.initValue) /\ LessEq(values.initValue, Zero)
             THEN <<"-">> ELSE << >>),
    <<"X">>, X)

\* formatFor with each one-letter token replaced before its two-letter one.
formatForShortFirst(format, options, values, X) ==
  Replace(Replace(Replace(Replace(Replace(Replace(
  Replace(Replace(Replace(Replace(Replace(Replace(format,
    <<"D">>, NumberToString(values.degreesInt)),
    <<"D", "D">>, NumberToString(values.degreesInt) \o UNITS.degrees),
    <<"d">>, toFixed(values.degrees, options.decimalPlaces)),
    <<"d", "d">>, toFixed(values.degrees, options.decimalPlaces) \o UNITS.degrees),
    <<"M">>, NumberToString(values.minutesInt)),
    <<"M", "M">>, NumberToString(values.minutesInt) \o UNITS.minutes),
    <<"m">>, toFixed(values.minutes, options.decimalPlaces)),
    <<"m", "m">>, toFixed(values.minutes, options.decimalPlaces) \o UNITS.minutes),
    <<"s">>, toFixed(values.seconds, options.decimalPlaces)),
    <<"s", "s">>, toFixed(values.seconds, options.decimalPlaces) \o UNITS.seconds),
    <<"-">>, IF isNumber(values.initValue) /\ Less(values.initValue, Zero)
             THEN <<"-">> ELSE << >>),
    <<"X">>, X)

formatFor(format, options, values, X) ==
  Replace(Replace(Replace(Replace(Replace(Replace(
  Replace(Replace(Replace(Replace(Replace(Replace(format,
    <<"D", "D">>, NumberToString(values.degreesInt) \o UNITS.degrees),
    <<"d", "d">>, toFixed(values.degrees, options.decimalPlaces) \o UNITS.degrees),
    <<"D">>, NumberToString(values.degreesInt)),
    <<"d">>, toFixed(values.degrees, options.decimalPlaces)),
    <<"M", "M">>, NumberToString(values.minutesInt) \o UNITS.minutes),
    <<"m", "m">>, toFixed(values.minutes, options.decimalPlaces) \o UNITS.minutes),
    <<"M">>, NumberToString(values.minutesInt)),
    <<"m">>, toFixed(values.minutes, options.decimalPlaces)),
    <<"s", "s">>, toFixed(values.seconds, options.decimalPlaces) \o UNITS.seconds),
    <<"s">>, toFixed(values.seconds, options.decimalPlaces)),
    <<"-">>, IF isNumber(values.initValue) /\ Less(values.initValue, Zero)
             THEN <<"-">> ELSE << >>),
    <<"X">>, X)

\* optionsOf with the defaults assigned over the options given.
optionsOfDefaultsLast(optOptions) == [decimalPlaces |-> 5, latLonSeparator |-> <<" ">>]

\* Object.assign({decimalPlaces: 5, latLonSeparator: ' '}, optOptions)
optionsOf(optOptions) ==
  [ decimalPlaces |-> IF "decimalPlaces" \in DOMAIN optOptions
                      THEN optOptions.decimalPlaces ELSE 5,
    latLonSeparator |-> IF "latLonSeparator" \in DOMAIN optOptions
                        THEN optOptions.latLonSeparator ELSE <<" ">> ]

\* formatPair with the separator made part of the latitude's format.
formatPairSeparatorFormatted(format, options, coordConf) ==
  formatFor(format \o options.latLonSeparator, options, coordConf.latValues,
            IF coordConf.north THEN <<"N">> ELSE <<"S">>)
    \o formatFor(format, options, coordConf.lonValues, IF coordConf.east THEN <<"E">> ELSE <<"W">>)

formatPair(format, options, coordConf) ==
  formatFor(format, options, coordConf.latValues, IF coordConf.north THEN <<"N">> ELSE <<"S">>)
    \o options.latLonSeparator
    \o formatFor(format, options, coordConf.lonValues, IF coordConf.east THEN <<"E">> ELSE <<"W">>)

\* toDMS that asks for two elements at least.
toDMSAtLeastTwo(coordinate, optFormatStr, optOptions) ==
  IF Len(coordinate) < 2 THEN Throw("Not a valid coordinate")
  ELSE Ok(formatPair(IF optFormatStr /= Undefined THEN optFormatStr
                     ELSE <<"D", "D", " ", "M", "M", " ", "s", "s", " ", "X">>,
                     optionsOf(optOptions),
                     computeCoordinateConfig(coordinate)))

\* toDMS(): coordinate is undefined, and reading coordinate.length throws a
\* TypeError before anything else is done.
toDMSNoArgument == Throw("TypeError")

toDMS(coordinate, optFormatStr, optOptions) ==
  IF Len(coordinate) /= 2 THEN Throw("Not a valid coordinate")
  ELSE Ok(formatPair(IF optFormatStr /= Undefined THEN optFormatStr
                     ELSE <<"D", "D", " ", "M", "M", " ", "s", "s", " ", "X">>,
                     optionsOf(optOptions),
                     computeCoordinateConfig(coordinate)))

-----------------------------------------------------------------------------
(* fromDMM (fromGMM in the earlier source) and parseFloat.                 *)

\* The index of the first sep in s from i, 0 when there is none.
RECURSIVE IndexOf(_, _, _)
IndexOf(s, sep, i) ==
  IF i > Len(s) THEN 0 ELSE IF s[i] = sep THEN i ELSE IndexOf(s, sep, i + 1)

\* String.prototype.split(sep) for a one-character sep.
RECURSIVE Split(_, _)
Split(s, sep) ==
  LET i == IndexOf(s, sep, 1)
  IN  IF i = 0 THEN <<s>>
      ELSE <<Slice(s, 1, i - 1)>> \o Split(Slice(s, i + 1, Len(s)), sep)

\* String.prototype.replace('-', ''): the first "-" removed.
RemoveFirstMinus(s) ==
  LET i == IndexOf(s, "-", 1)
  IN  IF i = 0 THEN s ELSE Slice(s, 1, i - 1) \o Slice(s, i + 1, Len(s))

\* The digits is . fs with the decimal point moved by exp places.
Scaled(is, fs, exp) ==
  IF exp >= 0
  THEN Decimal(is \o Slice(fs \o Zeros(exp - Len(fs)), 1, exp), Slice(fs, exp + 1, Len(fs)))
  ELSE Decimal(Slice(is, 1, Len(is) + exp),
               Zeros(0 - exp - Len(is)) \o Slice(is, Len(is) + exp + 1, Len(is)) \o fs)

\* The exponent part of t at b: e or E, a sign, digits; 0 without digits.
Exponent(t, b) ==
  LET y == IF At(t, b + 1) \in {"-", "+"} THEN b + 2 ELSE b + 1
  IN  IF At(t, b) \in {"e", "E"} /\ IsDigit(At(t, y))
      THEN (IF At(t, b + 1) = "-" THEN 0 - 1 ELSE 1)
             * DigitsValue(Slice(t, y, DigitsEnd(t, y) - 1))
      ELSE 0

\* The literal of t with integer digits from i up to a and, after a point
\* at a, fractional digits up to b (b = a without a point).
Literal(t, i, a, b) ==
  IF ~(a > i \/ b > a + 1) THEN NaN
  ELSE IF At(t, 1) = "-"
    THEN Negate(Scaled(Slice(t, i, a - 1), Slice(t, a + 1, b - 1), Exponent(t, b)))
  ELSE Scaled(Slice(t, i, a - 1), Slice(t, a + 1, b - 1), Exponent(t, b))

FractionDigitsEnd(t, a) == IF At(t, a) = "." THEN DigitsEnd(t, a + 1) ELSE a

LiteralFrom(t, i) ==
  LET a == DigitsEnd(t, i)
  IN  Literal(t, i, a, FractionDigitsEnd(t, a))

\* parseFloat(text): the longest prefix, after leading white space, that is
\* a decimal literal: [+-] digits [. [digits]] | [+-] . digits, then an
\* exponent e [+-] digits when its digits are there; NaN without one.
parseFloat(text) ==
  LET t == TrimLeft(text)
  IN  LiteralFrom(t, IF At(t, 1) \in {"-", "+"} THEN 2 ELSE 1)

\* valueOf with the minutes added undivided.
valueOfMinutesWhole(orientation, decimalGrad, decimalMinutes) ==
  IF isNumber(decimalGrad) /\ isNumber(decimalMinutes)
  THEN Times(orientation, Plus(decimalGrad, decimalMinutes))
  ELSE NaN

\* orientation * (degrees + minutes / 60), or undefined (NaN here: isNumber
\* rejects both alike).
valueOf(orientation, decimalGrad, decimalMinutes) ==
  IF isNumber(decimalGrad) /\ isNumber(decimalMinutes)
  THEN Times(orientation, Plus(decimalGrad, Over(decimalMinutes, 60)))
  ELSE NaN

valueOfTokens(orientation, parts) ==
  valueOf(orientation,
          IF orientation = 0 - 1 THEN parseFloat(RemoveFirstMinus(parts[1]))
          ELSE parseFloat(parts[1]),
          IF Len(parts) > 1 THEN parseFloat(parts[2]) ELSE Whole(0))

valueOfTrimmed(t) ==
  valueOfTokens(IF Slice(t, 1, 1) = <<"-">> THEN 0 - 1 ELSE 1, Split(t, " "))

\* One half of the input.
valueOfPart(part) == valueOfTrimmed(Trim(part))

\* checkedPair with the latitude allowed the range of the longitude.
checkedPairWide(valueLon, valueLat) ==
  IF ~isNumber(valueLon) \/ ~isNumber(valueLat) THEN Throw(PARSE_STRING)
  ELSE IF ~inRange(valueLon, 0 - 180, 180) \/ ~inRange(valueLat, 0 - 180, 180)
    THEN Throw("Lon/Lat values out of range")
  ELSE Ok(<<valueLon, valueLat>>)

checkedPair(valueLon, valueLat) ==
  IF ~isNumber(valueLon) \/ ~isNumber(valueLat) THEN Throw(PARSE_STRING)
  ELSE IF ~inRange(valueLon, 0 - 180, 180) \/ ~inRange(valueLat, 0 - 90, 90)
    THEN Throw("Lon/Lat values out of range")
  ELSE Ok(<<valueLon, valueLat>>)

\* fromParts that takes the first two parts of any number of them.
fromPartsFirstTwo(v, parts) ==
  IF IndexOf(v, ",", 1) = 0 THEN Throw(PARSE_STRING)
  ELSE checkedPair(valueOfPart(parts[2]), valueOfPart(parts[1]))

fromParts(v, parts) ==
  IF IndexOf(v, ",", 1) = 0 THEN Throw(PARSE_STRING)
  ELSE IF Len(parts) /= 2 THEN Throw(PARSE_STRING)
  ELSE checkedPair(valueOfPart(parts[2]), valueOfPart(parts[1]))

fromTrimmedDMM(v) == fromParts(v, Split(v, ","))

fromDMM(value) == fromTrimmedDMM(Trim(value))

-----------------------------------------------------------------------------
(* The classifiers.  DOES_CONTAIN_SPECIAL_CHARS is one RegExp object with  *)
(* the g flag, shared by all calls: test starts at its lastIndex and       *)
(* leaves there the index after the match, or 0 when nothing matched.      *)

\* The 0-based index of the first special character of s at or after from,
\* -1 when there is none.
RECURSIVE SearchSpecial(_, _)
SearchSpecial(s, from) ==
  IF from >= Len(s) THEN 0 - 1
  ELSE IF IsSpecialChar(s[from + 1]) THEN from
  ELSE SearchSpecial(s, from + 1)

\* DOES_CONTAIN_SPECIAL_CHARS.test(value) with the object's lastIndex li.
test(value, li) ==
  LET i == IF li > Len(value) THEN 0 - 1 ELSE SearchSpecial(value, li)
  IN  [ret |-> i >= 0, lastIndex |-> IF i >= 0 THEN i + 1 ELSE 0]

\* What isDMM returns and the lastIndex it leaves, from fromDMM's outcome
\* v: test runs only when fromDMM returned, and a throw is caught.
isDMMOf(v, t, li) ==
  IF v.ok THEN [ret |-> ~t.ret, lastIndex |-> t.lastIndex]
  ELSE [ret |-> FALSE, lastIndex |-> li]

\* isDMM(value) called when the regular expression's lastIndex is li.
isDMM(value, li) == isDMMOf(fromDMM(value), test(value, li), li)

\* isDMSOf with a catch block that returns true.
isDMSOfCatchTrue(v, d, li) ==
  IF v.ok THEN [ret |-> ~d.ret, lastIndex |-> d.lastIndex]
  ELSE [ret |-> TRUE, lastIndex |-> li]

\* What isDMS returns from fromDMS's outcome v; d is isDMM(value), which
\* runs only when fromDMS returned.
isDMSOf(v, d, li) ==
  IF v.ok THEN [ret |-> ~d.ret, lastIndex |-> d.lastIndex]
  ELSE [ret |-> FALSE, lastIndex |-> li]

isDMS(value, li) == isDMSOf(fromDMS(value), isDMM(value, li), li)

-----------------------------------------------------------------------------
(* The inputs of the calls.                                                *)

\* The longest text drawn from Alphabet.
MaxLen == 4

Alphabet == {"9", ",", "N"}

RECURSIVE TextsUpTo(_)
TextsUpTo(n) ==
  IF n = 0 THEN {<< >>}
  ELSE LET shorter == TextsUpTo(n - 1)
       IN  shorter \union {Append(t, c) : t \in shorter, c \in Alphabet}

\* Texts of the repository's tests.
Examples ==
  { <<"4","1"," ","2","4",".","2","0","2","8",","," ","2"," ","1","0",".","4","4","1","8">>,
    <<"4","1",".","4","0","3","3","8",","," ","2",".","1","7","4","0","3">>,
    <<"4","1","deg","2","4","'","1","2",".","2","dq","N"," ","2","deg","1","0","'","2","6",".","5","dq","E">>,
    <<"4","1","deg","2","4","'","1","2",".","2","dq","N",",","2","deg","1","0","'","2","6",".","5","dq","E">>,
    <<"4","1"," ","2","4",".","2","0","2","8",","," ","-">>,
    <<"x","y">>,
    <<"1","9","0","deg","1","2","'","7",".","7","dq"," ","-","0","2","deg","1","5","'","3","9",".","6","dq">>,
    <<"5","9","deg","6","5","'","7",".","7","dq"," ","-","0","2","deg","1","5","'","3","9",".","6","dq">>,
    <<"5","9","deg","1","2","'","6","5",".","5","dq"," ","-","0","2","deg","1","5","'","3","9",".","6","dq">>,
    <<"4","1",","," ","-","1","9","0">> }

Texts == TextsUpTo(MaxLen) \union Examples

\* A component of a DMS text as it is written: a hemisphere letter before
\* it and one after it ("" for none), a minus sign or none, and degrees,
\* minutes and seconds in tenths (-1 for minutes or seconds left out).
Component(lead, minus, deg, min, sec, trail) ==
  [lead |-> lead, minus |-> minus, deg |-> deg, min |-> min, sec |-> sec, trail |-> trail]

Letters == {"N", "S", "E", "W", "n", "s", "e", "w"}

\* Every way to write the sign, on a few numbers.
SignForms ==
  { Component(l, m, x[1], x[2], x[3], t) :
      l \in Letters \union {""}, m \in BOOLEAN, t \in Letters \union {""},
      x \in {<<590, 0 - 1, 0 - 1>>, <<0, 125, 0 - 1>>, <<20, 155, 396>>} }

\* Numbers at, between and beyond the ends of the ranges, under a few signs.
NumberForms ==
  { Component(x[1], x[2], d, m, s, x[3]) :
      x \in {<<"", FALSE, "">>, <<"", TRUE, "">>, <<"", FALSE, "S">>, <<"E", FALSE, "">>},
      d \in {0, 590, 1200, 1800, 1801},
      m \in {0 - 1, 0, 125, 600, 601},
      s \in {0 - 1, 0, 77, 600, 601} }

Components == {c \in SignForms \union NumberForms : c.sec >= 0 => c.min >= 0}

\* The components the others are written next to.
Partners ==
  { Component("", FALSE, 20, 0 - 1, 0 - 1, "W"),
    Component("N", FALSE, 150, 300, 205, ""),
    Component("", FALSE, 1900, 0 - 1, 0 - 1, "E") }

\* The digits of the natural number n.
RECURSIVE NatDigits(_)
NatDigits(n) ==
  IF n < 10 THEN <<DigitChar(n)>> ELSE NatDigits(n \div 10) \o <<DigitChar(n % 10)>>

\* n tenths written as a decimal.
TenthsText(n) ==
  NatDigits(n \div 10) \o (IF n % 10 = 0 THEN << >> ELSE <<".", DigitChar(n % 10)>>)

LetterText(l) == IF l = "" THEN << >> ELSE <<l>>

ComponentText(c) ==
  LetterText(c.lead) \o (IF c.minus THEN <<"-">> ELSE << >>)
    \o TenthsText(c.deg) \o <<"deg">>
    \o (IF c.min >= 0 THEN TenthsText(c.min) \o <<"'">> ELSE << >>)
    \o (IF c.sec >= 0 THEN TenthsText(c.sec) \o <<"dq">> ELSE << >>)
    \o LetterText(c.trail)

\* The text of a latitude and a longitude component, a space between them.
PairText(lat, lon) == ComponentText(lat) \o <<" ">> \o ComponentText(lon)

\* The expression takes each component as it is written: minutes without
\* seconds do not run into the digits that follow, and the letter before
\* the second component is not read as one after the first.
Separate(lat, lon) ==
  /\ (lat.min >= 0 /\ lat.sec < 0) => lat.trail /= ""
  /\ lon.lead /= "" => (lat.lead /= "" \/ lat.trail /= "")

Pairs ==
  { p \in {<<c, q>> : c \in Components, q \in Partners}
            \union {<<q, c>> : c \in Components, q \in Partners}
            \union {<<q, q>> : q \in Partners} :
      Separate(p[1], p[2]) }

\* The text of c with the unit after its last number left out, where the
\* expression makes that unit optional: the degree sign of a component of
\* degrees only, the seconds sign of one with seconds.
BareText(c) ==
  LetterText(c.lead) \o (IF c.minus THEN <<"-">> ELSE << >>)
    \o TenthsText(c.deg)
    \o (IF c.min >= 0 THEN <<"deg">> \o TenthsText(c.min) \o <<"'">> ELSE << >>)
    \o (IF c.sec >= 0 THEN TenthsText(c.sec) ELSE << >>)
    \o LetterText(c.trail)

\* A component alone, with every unit written (units) or its last one left
\* out.
SingleText(c, units) == IF units THEN ComponentText(c) ELSE BareText(c)

Singles ==
  { x \in {<<c, u>> : c \in Components, u \in BOOLEAN} :
      ~x[2] => (x[1].min < 0 \/ x[1].sec >= 0) }

\* Components of degrees and minutes, without seconds and without letters.
MinuteForms ==
  { Component("", m, d, n, 0 - 1, "") :
      m \in BOOLEAN, d \in {0, 20, 590, 1200, 1801}, n \in {0, 125, 600, 601} }

AdjacentPairs == {<<lat, lon>> : lat \in MinuteForms, lon \in MinuteForms}

\* A token of a text of numbers: the characters before a decimal point and
\* those after it (no point when there are none after it).
Token(is, fs) == [is |-> is, fs |-> fs]

TokenText(t) == t.is \o (IF t.fs = << >> THEN << >> ELSE <<".">> \o t.fs)

\* One half of a pair as it is written: a minus sign or none, the degrees
\* token and, after one space, the minutes token (mins is << >> or holds
\* the one token).
Half(minus, deg, mins) == [minus |-> minus, deg |-> deg, mins |-> mins]

HalfText(h) ==
  (IF h.minus THEN <<"-">> ELSE << >>) \o TokenText(h.deg)
    \o (IF h.mins = << >> THEN << >> ELSE <<" ">> \o TokenText(h.mins[1]))

\* The halves hs with sep between them.
RECURSIVE HalvesText(_, _)
HalvesText(sep, hs) ==
  IF Len(hs) = 1 THEN HalfText(hs[1])
  ELSE HalfText(hs[1]) \o sep \o HalvesText(sep, Tail(hs))

\* Degrees tokens: numbers at, within and beyond the ranges, a word and
\* the empty token.
DegreeTokens ==
  { Token(<<"0">>, << >>), Token(<<"0">>, <<"1","2","6">>), Token(<<"2">>, << >>),
    Token(<<"4","1">>, << >>), Token(<<"5","1">>, <<"5">>), Token(<<"9","0">>, << >>),
    Token(<<"1","8","0">>, << >>), Token(<<"1","9","0">>, << >>),
    Token(<<"x">>, << >>), Token(<< >>, << >>) }

MinuteTokens ==
  { Token(<<"3","0">>, << >>), Token(<<"2","4">>, <<"2","0","2","8">>),
    Token(<<"1","0">>, <<"4","4","1","8">>), Token(<<"x">>, << >>) }

\* A half that starts with its degrees token or its minus sign.
Halves ==
  { h \in { Half(m, d, ms) : m \in BOOLEAN, d \in DegreeTokens,
                              ms \in {<< >>} \union {<<t>> : t \in MinuteTokens} } :
      (h.deg = Token(<< >>, << >>) /\ ~h.minus) => h.mins = << >> }

\* The halves the others are written next to.
PartnerHalves ==
  { Half(FALSE, Token(<<"4","1">>, << >>), <<Token(<<"2","4">>, <<"2","0","2","8">>)>>),
    Half(TRUE, Token(<<"2">>, << >>), <<Token(<<"1","0">>, <<"4","4","1","8">>)>>),
    Half(TRUE, Token(<<"0">>, <<"1","2","6">>), << >>) }

\* One, two and three halves.
HalvesLists ==
  {<<h>> : h \in PartnerHalves}
    \union {<<h, q>> : h \in Halves, q \in PartnerHalves}
    \union {<<q, h>> : h \in Halves, q \in PartnerHalves}
    \union {<<h, q, h>> : h \in PartnerHalves, q \in PartnerHalves}

\* Pairs of plain numbers.
PlainPairs ==
  {hs \in {<<h, q>> : h \in Halves, q \in Halves} :
     \A i \in 1..2 : hs[i].mins = << >> /\ hs[i].deg \notin {Token(<<"x">>, << >>), Token(<< >>, << >>)}}

Separators == {<<",", " ">>, <<",">>, <<" ">>}

\* A number given as a decimal literal: a sign, the digits before the point
\* and those after it.
Literal10(neg, is, fs) == IF neg THEN Negate(Decimal(is, fs)) ELSE Decimal(is, fs)

Longitudes ==
  { Literal10(n, x[1], x[2]) :
      n \in BOOLEAN,
      x \in { <<<<"0">>, << >>>>,
              <<<<"0">>, <<"5">>>>,
              <<<<"2">>, <<"2","6","1">>>>,
              <<<<"1","3">>, <<"4","0","4","9","5","4">>>>,
              <<<<"1","4","9">>, <<"1","2","8","6","8","4">>>>,
              <<<<"1","7","9">>, <<"9","9","9","9","9","9">>>>,
              <<<<"1","8","0">>, << >>>> } }

Latitudes ==
  { Literal10(n, x[1], x[2]) :
      n \in BOOLEAN,
      x \in { <<<<"0">>, << >>>>,
              <<<<"3","5">>, <<"2","8","2">>>>,
              <<<<"5","9">>, <<"2","0","2","1","3","9">>>>,
              <<<<"8","9">>, <<"5">>>>,
              <<<<"9","0">>, << >>>> } }

\* What toDMS is given as its coordinate: pairs of numbers, arrays of other
\* lengths, and pairs with an element that is not a number.
Arguments ==
  { <<lon, lat>> :
      lon \in { Zero, Literal10(FALSE, <<"1","4","9">>, <<"1","2","8","6","8","4">>),
                Literal10(TRUE, <<"2">>, <<"2","6","1">>), NaN },
      lat \in { Zero, Literal10(TRUE, <<"3","5">>, <<"2","8","2">>),
                Literal10(FALSE, <<"8","9">>, <<"5">>),
                Literal10(FALSE, <<"5","9">>, <<"2","0","2","1","3","8","8","8","8","8","8","8","8","9">>),
                NaN } }
    \union { << >>, <<Whole(2)>>, <<Whole(2), Whole(59), Whole(0)>> }

Formats ==
  { Undefined,
    <<"D", "D", " ", "M", "M", " ", "s", "s", " ", "X">>,
    <<"D", "D", " ", "m", "m", " ", "X">>,
    <<"d", "d", " ", "X">>,
    <<"-", "D", " ", "M", " ", "s">>,
    <<"X">> }

\* decimalPlaces as given, -1 for an option object without it.
DecimalPlacesGiven == {0 - 1, 0, 5}

\* latLonSeparator as given, Undefined for an option object without it.
SeparatorsGiven == {Undefined, <<" ", "-", " ">>, <<",", " ">>}

\* The options object with the options given (undefined with none).
OptionsGiven(dp, sep) ==
  IF dp < 0 /\ sep = Undefined THEN << >>
  ELSE IF dp < 0 THEN [latLonSeparator |-> sep]
  ELSE IF sep = Undefined THEN [decimalPlaces |-> dp]
  ELSE [decimalPlaces |-> dp, latLonSeparator |-> sep]

\* The values of one axis: degrees 0, 2, 35, 149 and 179 with fractions
\* that give whole minutes, seconds of five decimals and less, and seconds
\* and minutes just below 60.
AxisValues ==
  { Literal10(n, is, fs) :
      n \in BOOLEAN,
      is \in {<<"0">>, <<"2">>, <<"3","5">>, <<"1","4","9">>, <<"1","7","9">>},
      fs \in { << >>, <<"5">>, <<"2","5">>, <<"2","8","2">>, <<"1","2","8","6","8","4">>,
               <<"9","9","9","9">>, <<"9","9","9","9","9","9">>, <<"0","1","6","6","6","6">>,
               <<"9","9","9","7">>, <<"2","0","2","1","3","8","8","8","8","8">> } }

AxisFormats ==
  { <<"D", "D", " ", "M", "M", " ", "s", "s", " ", "X">>,
    <<"-", "D", " ", "M", " ", "s">>,
    <<"d", "d">>, <<"m", "m">>, <<"m">>, <<"s", "s">>, <<"s">>,
    <<"D", "D", "D">>, <<"s", "s", "s", "-">>,
    <<"-", "d", "D", "m", "M", "s", "X", "-">> }

AxisDecimalPlaces == {0, 5}

\* Coordinates <<longitude, latitude>> whose seconds have at most five
\* decimals.
Coordinates == {<<lon, lat>> : lon \in Longitudes, lat \in Latitudes}

-----------------------------------------------------------------------------
(* The state: lastIndex of DOES_CONTAIN_SPECIAL_CHARS, the one thing the   *)
(* module keeps between calls, and the call that returned last: function,  *)
(* argument, outcome and, in prev, the function and outcome of the call    *)
(* made just before it on the same argument (<< >> when there was none).   *)
(* Idle is the caller going on to an unrelated argument.  written is what  *)
(* the text of the last call was written from: a pair of components, a     *)
(* separator and halves, or the coordinate toDMS was given; for a call of  *)
(* toDMS with a format and options it is what the caller gave (<< >> for a *)
(* text taken as it is).                                                   *)

Idle == [fn |-> "none", arg |-> << >>, res |-> FALSE, prev |-> << >>]

Init ==
  /\ lastIndex = 0
  /\ call = Idle
  /\ written = << >>

\* A call on x is the first one or follows a call on the same x.
CanCall(x) == call.fn = "none" \/ call.arg = x

Returned(fn, x, res) ==
  [fn |-> fn, arg |-> x, res |-> res,
   prev |-> IF call.fn = "none" THEN << >> ELSE <<call.fn, call.res>>]

\* A classifier has returned r.ret and left the regular expression at
\* r.lastIndex.
Classified(fn, x, r) ==
  /\ call' = Returned(fn, x, r.ret)
  /\ lastIndex' = r.lastIndex
  /\ UNCHANGED written

CallIsDMM(x) ==
  /\ CanCall(x)
  /\ Classified("isDMM", x, isDMM(x, lastIndex))

CallIsDMS(x) ==
  /\ CanCall(x)
  /\ Classified("isDMS", x, isDMS(x, lastIndex))

CallFromDMS(x) ==
  /\ CanCall(x)
  /\ call' = Returned("fromDMS", x, fromDMS(x))
  /\ UNCHANGED <<lastIndex, written>>

CallFromDMM(x) ==
  /\ CanCall(x)
  /\ call' = Returned("fromDMM", x, fromDMM(x))
  /\ UNCHANGED <<lastIndex, written>>

Forget ==
  /\ call.fn /= "none"
  /\ call' = Idle
  /\ UNCHANGED <<lastIndex, written>>

Next ==
  \/ \E x \in Texts : CallIsDMM(x)
  \/ \E x \in Texts : CallIsDMS(x)
  \/ \E x \in Texts : CallFromDMS(x)
  \/ \E x \in Texts : CallFromDMM(x)
  \/ Forget

Spec == Init /\ [][Next]_vars

\* fromDMS on the text of a latitude and a longitude component.
CallFromDMSWritten(lat, lon) ==
  /\ call.fn = "none"
  /\ call' = Returned("fromDMS", PairText(lat, lon), fromDMS(PairText(lat, lon)))
  /\ written' = <<lat, lon>>
  /\ UNCHANGED lastIndex

NextDMS == \E p \in Pairs : CallFromDMSWritten(p[1], p[2])

SpecDMS == Init /\ [][NextDMS]_vars

\* fromDMS on the text of one component alone.
CallFromDMSSingle(c, units) ==
  /\ call.fn = "none"
  /\ call' = Returned("fromDMS", SingleText(c, units), fromDMS(SingleText(c, units)))
  /\ written' = <<c>>
  /\ UNCHANGED lastIndex

\* fromDMS on two components of degrees and minutes, a space between them.
CallFromDMSAdjacent(lat, lon) ==
  /\ call.fn = "none"
  /\ call' = Returned("fromDMS", PairText(lat, lon), fromDMS(PairText(lat, lon)))
  /\ written' = <<lat, lon>>
  /\ UNCHANGED lastIndex

NextLoose ==
  \/ \E x \in Singles : CallFromDMSSingle(x[1], x[2])
  \/ \E p \in AdjacentPairs : CallFromDMSAdjacent(p[1], p[2])

SpecLoose == Init /\ [][NextLoose]_vars

\* fromDMS on a pair of plain numbers with sep between them.
CallFromDMSHalves(sep, hs) ==
  /\ call.fn = "none"
  /\ call' = Returned("fromDMS", HalvesText(sep, hs), fromDMS(HalvesText(sep, hs)))
  /\ written' = <<sep, hs>>
  /\ UNCHANGED lastIndex

\* fromDMM on halves with sep between them.
CallFromDMMHalves(sep, hs) ==
  /\ call.fn = "none"
  /\ call' = Returned("fromDMM", HalvesText(sep, hs), fromDMM(HalvesText(sep, hs)))
  /\ written' = <<sep, hs>>
  /\ UNCHANGED lastIndex

NextHalves ==
  \/ \E sep \in Separators, hs \in PlainPairs : CallFromDMSHalves(sep, hs)
  \/ \E sep \in Separators, hs \in HalvesLists : CallFromDMMHalves(sep, hs)

SpecHalves == Init /\ [][NextHalves]_vars

\* toDMS(coordinate, format, options); written keeps whether a coordinate
\* was given, the format and the options.
CallToDMSWith(coordinate, format, dp, sep) ==
  /\ call.fn = "none"
  /\ call' = Returned("toDMS", coordinate, toDMS(coordinate, format, OptionsGiven(dp, sep)))
  /\ written' = <<TRUE, format, dp, sep>>
  /\ UNCHANGED lastIndex

\* toDMS()
CallToDMSNoArgument ==
  /\ call.fn = "none"
  /\ call' = Returned("toDMS", << >>, toDMSNoArgument)
  /\ written' = <<FALSE, Undefined, 0 - 1, Undefined>>
  /\ UNCHANGED lastIndex

NextToDMS ==
  \/ \E c \in Arguments, f \in Formats, dp \in DecimalPlacesGiven, sep \in SeparatorsGiven :
        CallToDMSWith(c, f, dp, sep)
  \/ CallToDMSNoArgument

SpecToDMS == Init /\ [][NextToDMS]_vars

\* computeFor(value) of computeCoordinateConfig.
CallComputeFor(value) ==
  /\ call.fn = "none"
  /\ call' = Returned("computeFor", <<value>>, computeFor(value))
  /\ written' = <<value>>
  /\ UNCHANGED lastIndex

\* formatFor of toDMS for the latitude value (N above 0, else S).
CallFormatFor(value, format, dp) ==
  /\ call.fn = "none"
  /\ call' = Returned("formatFor", format,
                      formatFor(format, [decimalPlaces |-> dp, latLonSeparator |-> <<" ">>],
                                computeFor(value),
                                IF Less(Zero, value) THEN <<"N">> ELSE <<"S">>))
  /\ written' = <<value, format, dp>>
  /\ UNCHANGED lastIndex

NextAxis ==
  \/ \E v \in AxisValues : CallComputeFor(v)
  \/ \E v \in AxisValues, f \in AxisFormats, dp \in AxisDecimalPlaces : CallFormatFor(v, f, dp)

SpecAxis == Init /\ [][NextAxis]_vars

\* toDMS with the default format and options.
CallToDMS(coordinate) ==
  /\ call.fn = "none"
  /\ call' = Returned("toDMS", coordinate, toDMS(coordinate, Undefined, << >>))
  /\ UNCHANGED <<lastIndex, written>>

\* fromDMS on the text toDMS returned.
CallFromDMSBack ==
  /\ call.fn = "toDMS"
  /\ call.res.ok
  /\ call' = Returned("fromDMS", call.res.val, fromDMS(call.res.val))
  /\ written' = call.arg
  /\ UNCHANGED lastIndex

NextRoundTrip ==
  \/ \E c \in Coordinates : CallToDMS(c)
  \/ CallFromDMSBack

SpecRoundTrip == Init /\ [][NextRoundTrip]_vars

-----------------------------------------------------------------------------
(* The classifiers' contracts, under Spec.                                 *)

Classifiers == {"isDMM", "isDMS"}

\* The last two calls were the two classifiers, one after the other, on
\* the same text.
BothClassified ==
  /\ call.fn \in Classifiers
  /\ call.prev /= << >>
  /\ call.prev[1] \in Classifiers
  /\ call.prev[1] /= call.fn

\* C1: after any earlier classifier calls, isDMS(x) and isDMM(x) called one
\* after the other, in either order, never both return true.
NeverBothTrue == BothClassified => ~(call.res /\ call.prev[2])

\* C2: what isDMM(x) and isDMS(x) return depends only on x: it is what the
\* classifier returns on x when nothing was classified before, and what it
\* returned the call before on the same x.
DependsOnlyOnInput ==
  /\ call.fn = "isDMM" => call.res = isDMM(call.arg, 0).ret
  /\ call.fn = "isDMS" => call.res = isDMS(call.arg, 0).ret
  /\ (call.fn \in Classifiers /\ call.prev /= << >> /\ call.prev[1] = call.fn)
       => call.res = call.prev[2]

HasSpecialChar(x) == \E i \in 1..Len(x) : IsSpecialChar(x[i])

\* C3: isDMM(value) returns true if and only if fromDMM(value) succeeds and
\* value holds none of the characters N S E W and the degree, minute and
\* second marks.
IsDMMIffPlainDMM ==
  call.fn = "isDMM" => (call.res <=> (fromDMM(call.arg).ok /\ ~HasSpecialChar(call.arg)))

-----------------------------------------------------------------------------
(* The round trip, under SpecRoundTrip.                                    *)

\* C5: for a coordinate [lon, lat] with |lon| <= 180 and |lat| <= 90 whose
\* seconds have at most five decimals, fromDMS of the text toDMS makes of
\* it with the default format and options returns [lon, lat] again.
RoundTripReturnsCoordinate ==
  (call.fn = "fromDMS" /\ written /= << >>) => call.res = Ok(written)

-----------------------------------------------------------------------------
(* fromDMS and the Decimal-Degree Extractor, under SpecDMS: written is the *)
(* pair <<first component, second component>> the text was written from.   *)

\* fromDMS has returned from a text written from two components.
ParsedWritten == call.fn = "fromDMS" /\ written /= << >>

\* What the extractor makes of the text of one component alone.
ParsedAlone(c) == decDegFromMatch(Match(ComponentText(c)))

\* C6: fromDMS takes the first component of the text as the latitude and
\* the second as the longitude, whatever hemisphere letters they carry, and
\* returns <<longitude, latitude>>.
FirstIsLatitude ==
  (ParsedWritten /\ call.res.ok) =>
    call.res.val = <<ParsedAlone(written[2]).val, ParsedAlone(written[1]).val>>

\* C6, its case: '59°W N15°30'20.5"' has given the latitude -59 from the
\* component marked W and a positive longitude from the one marked N.
LatitudeFromWestComponent ==
  /\ ParsedWritten
  /\ written = <<Component("", FALSE, 590, 0 - 1, 0 - 1, "W"),
                 Component("N", FALSE, 150, 300, 205, "")>>
  /\ call.res.ok
  /\ call.res.val[2] = Whole(0 - 59)
  /\ Less(Whole(15), call.res.val[1])

\* The number of n tenths.
TenthsValue(n) == Over(Whole(n), 10)

\* degrees + minutes/60 + seconds/3600 of a component, minutes and seconds
\* left out counting as 0.
Magnitude(c) ==
  Plus(Plus(TenthsValue(c.deg),
            Over(IF c.min >= 0 THEN TenthsValue(c.min) ELSE Zero, 60)),
       Over(IF c.sec >= 0 THEN TenthsValue(c.sec) ELSE Zero, 3600))

\* C7: each value of a successful fromDMS is, up to its sign, degrees +
\* minutes/60 + seconds/3600 of its component, with 0 for minutes and
\* seconds the component leaves out.
ValueIsDegreesMinutesSeconds ==
  (ParsedWritten /\ call.res.ok) =>
    /\ Abs(call.res.val[1]) = Magnitude(written[2])
    /\ Abs(call.res.val[2]) = Magnitude(written[1])

\* C7, its case: '59°N 2°W' has given [-2, 59].
DegreesOnlyParsed ==
  /\ ParsedWritten
  /\ written = <<Component("", FALSE, 590, 0 - 1, 0 - 1, "N"),
                 Component("", FALSE, 20, 0 - 1, 0 - 1, "W")>>
  /\ call.res = Ok(<<Whole(0 - 2), Whole(59)>>)

\* The sign a hemisphere letter stands for, in either case.
HemisphereSign(l) == IF l \in {"S", "s", "W", "w"} THEN 0 - 1 ELSE 1

\* The sign of a component: a minus sign, else the letter before it, else
\* the letter after it, else positive.
ResolvedSign(c) ==
  IF c.minus THEN 0 - 1
  ELSE IF c.lead /= "" THEN HemisphereSign(c.lead)
  ELSE IF c.trail /= "" THEN HemisphereSign(c.trail)
  ELSE 1

\* C8: the sign of a parsed component is that of its minus sign if it has
\* one, else that of the hemisphere letter before it, else that of the
\* letter after it, else positive.
SignResolvedInOrder ==
  (ParsedWritten /\ call.res.ok) =>
    /\ call.res.val[1] = Times(ResolvedSign(written[2]), Magnitude(written[2]))
    /\ call.res.val[2] = Times(ResolvedSign(written[1]), Magnitude(written[1]))

LowerCase(c) ==
  CASE c = "N" -> "n" [] c = "S" -> "s" [] c = "E" -> "e" [] c = "W" -> "w"
    [] OTHER -> c

\* The text x with n, s, e, w for its letters N, S, E, W.
LowerHemispheres(x) == [i \in 1..Len(x) |-> LowerCase(x[i])]

\* C9: writing n, s, e, w for the letters N, S, E, W of a text does not
\* change what fromDMS returns for it.
LetterCaseIgnored ==
  call.fn = "fromDMS" => fromDMS(LowerHemispheres(call.arg)) = call.res

\* The failure the numbers of a component call for ("" for none): the first
\* window left, in the order degrees, minutes, seconds.
RangeError(c) ==
  IF c.deg > 1800 THEN "Degrees out of range"
  ELSE IF c.min > 600 THEN "Minutes out of range"
  ELSE IF c.sec > 600 THEN "Seconds out of range"
  ELSE ""

\* C10: the extractor fails on a component if and only if its degrees lie
\* outside [0,180], its minutes outside [0,60] or its seconds outside
\* [0,60], whatever its sign, and then with the message of the first of
\* these; fromDMS fails with the failure of the second component if it has
\* one, else with that of the first.
RangeChecked ==
  ParsedWritten =>
    /\ call.res.ok <=> (RangeError(written[1]) = "" /\ RangeError(written[2]) = "")
    /\ call.res.err = IF RangeError(written[2]) /= "" THEN RangeError(written[2])
                      ELSE RangeError(written[1])

\* C10, its case: minutes and seconds both above 60 under degrees at 180
\* have failed for the minutes.
MinutesReportedFirst ==
  /\ ParsedWritten
  /\ written[1].deg = 1800 /\ written[1].min = 601 /\ written[1].sec = 601
  /\ written[1].minus
  /\ RangeError(written[2]) = ""
  /\ call.res = Throw("Minutes out of range")

-----------------------------------------------------------------------------
(* fromDMS on texts it cannot read, under Spec.                            *)

HasDigit(x) == \E i \in 1..Len(x) : IsDigit(x[i])

\* The text fromDMS searches for the longitude, for a text x whose trimmed
\* form has a match.
Remainder(x) == lonString(Trim(x), Match(Trim(x)))

\* C11: fromDMS fails with 'Could not parse string', and returns nothing,
\* when the trimmed text has no component match (as every text without a
\* digit) and when the remainder after the latitude component has none.
ParseFailureReported ==
  call.fn = "fromDMS" =>
    /\ ~HasDigit(call.arg) => call.res = Throw(PARSE_STRING)
    /\ ~Match(Trim(call.arg)).ok => call.res = Throw(PARSE_STRING)
    /\ (Match(Trim(call.arg)).ok /\ ~Match(Remainder(call.arg)).ok)
         => call.res = Throw(PARSE_STRING)
    /\ ~call.res.ok => call.res.val = << >>

\* C11, its case: a text with a latitude component and nothing that
\* matches after it has been refused.
RemainderHadNoMatch ==
  /\ call.fn = "fromDMS"
  /\ Match(Trim(call.arg)).ok
  /\ ~Match(Remainder(call.arg)).ok
  /\ call.res = Throw(PARSE_STRING)

-----------------------------------------------------------------------------
(* Pairs of numbers, under SpecHalves: written is <<separator, halves>>.   *)

IsNumberToken(t) == t.is /= << >> /\ \A i \in 1..Len(t.is) : IsDigit(t.is[i])

\* The number a token is the decimal of.
TokenValue(t) == Decimal(t.is, t.fs)

\* fromDMS has returned from the text of a pair of plain numbers.
PlainParsed == call.fn = "fromDMS" /\ written /= << >>

\* The number a plain half is the decimal of.
PlainValue(h) == IF h.minus THEN Negate(TokenValue(h.deg)) ELSE TokenValue(h.deg)

\* C12: fromDMS of 'a, b', 'a,b' or 'a b', a and b plain decimal degrees
\* with or without a minus sign, is [b, a].
PlainPairParsed ==
  (/\ PlainParsed
   /\ \A i \in 1..2 : LessEq(TokenValue(written[2][i].deg), Whole(180)))
    => call.res = Ok(<<PlainValue(written[2][2]), PlainValue(written[2][1])>>)

\* C12, its case: '51.5 -0.126' has given [-0.126, 51.5].
PlainPairWithSpaceParsed ==
  /\ PlainParsed
  /\ call.arg = <<"5", "1", ".", "5", " ", "-", "0", ".", "1", "2", "6">>
  /\ call.res = Ok(<<Negate(Decimal(<<"0">>, <<"1", "2", "6">>)),
                      Decimal(<<"5", "1">>, <<"5">>)>>)

\* fromDMM has returned from a text written from halves.
HalvesParsed == call.fn = "fromDMM" /\ written /= << >>

\* The commas of the text written.
Commas == IF "," \in {written[1][i] : i \in 1..Len(written[1])}
          THEN Len(written[2]) - 1 ELSE 0

\* A half one of whose tokens is not a number.
HasBadToken(h) ==
  \/ ~IsNumberToken(h.deg)
  \/ h.mins /= << >> /\ ~IsNumberToken(h.mins[1])

\* C13: fromDMM fails with 'Could not parse string' for a text without a
\* comma or with two or more, and for a text one of whose halves has a
\* degrees or minutes token that is not a number (an empty half, a half
\* that is only '-'); it fails that way for no other text.
DMMParseFailureReported ==
  HalvesParsed =>
    (call.res = Throw(PARSE_STRING)
       <=> (Commas /= 1 \/ \E i \in 1..Len(written[2]) : HasBadToken(written[2][i])))

\* C13, its case: '41 24.2028, -' has been refused.
HalfOnlyMinusRefused ==
  /\ HalvesParsed
  /\ call.arg = <<"4", "1", " ", "2", "4", ".", "2", "0", "2", "8", ",", " ", "-">>
  /\ call.res = Throw(PARSE_STRING)

\* sign * (degrees + minutes / 60) of a half, 0 for minutes left out.
HalfValue(h) ==
  Times(IF h.minus THEN 0 - 1 ELSE 1,
        Plus(TokenValue(h.deg),
             Over(IF h.mins = << >> THEN Zero ELSE TokenValue(h.mins[1]), 60)))

\* C14: a pair fromDMM returns for 'latHalf, lonHalf' is [longitude,
\* latitude], each sign * (degrees + minutes / 60) of its half: sign -1
\* exactly when the half starts with '-', degrees its first token without
\* that minus, minutes its second token or 0.
DMMValueIsDegreesMinutes ==
  (HalvesParsed /\ call.res.ok) =>
    call.res.val = <<HalfValue(written[2][2]), HalfValue(written[2][1])>>

\* C14, its case: '41 24.2028, -2 10.4418' has given
\* [-(2 + 10.4418 / 60), 41 + 24.2028 / 60].
DMMPairParsed ==
  /\ HalvesParsed
  /\ call.arg = <<"4", "1", " ", "2", "4", ".", "2", "0", "2", "8", ",", " ",
                  "-", "2", " ", "1", "0", ".", "4", "4", "1", "8">>
  /\ call.res.ok
  /\ call.res.val[1] = Negate(Plus(Whole(2), Over(Decimal(<<"1", "0">>, <<"4", "4", "1", "8">>), 60)))
  /\ call.res.val[2] = Plus(Whole(41), Over(Decimal(<<"2", "4">>, <<"2", "0", "2", "8">>), 60))

\* A pair of halves whose tokens are all numbers.
AllNumbers ==
  Commas = 1 /\ \A i \in 1..Len(written[2]) : ~HasBadToken(written[2][i])

\* C15: a pair fromDMM returns has its longitude in [-180, 180] and its
\* latitude in [-90, 90]; when both halves are numbers and one of them is
\* outside its range, fromDMM fails with 'Lon/Lat values out of range'.
DMMRangeChecked ==
  HalvesParsed =>
    /\ call.res.ok =>
         /\ inRange(call.res.val[1], 0 - 180, 180)
         /\ inRange(call.res.val[2], 0 - 90, 90)
    /\ (/\ AllNumbers
        /\ \/ ~inRange(HalfValue(written[2][2]), 0 - 180, 180)
           \/ ~inRange(HalfValue(written[2][1]), 0 - 90, 90))
         => call.res = Throw("Lon/Lat values out of range")

\* C15, its case: a latitude of 90 degrees 30 minutes next to a longitude
\* in range has been refused.
LatitudeBeyondNinetyRefused ==
  /\ HalvesParsed
  /\ AllNumbers
  /\ written[2][1] = Half(FALSE, Token(<<"9", "0">>, << >>), <<Token(<<"3", "0">>, << >>)>>)
  /\ inRange(HalfValue(written[2][2]), 0 - 180, 180)
  /\ call.res = Throw("Lon/Lat values out of range")

-----------------------------------------------------------------------------
(* toDMS, under SpecToDMS: written is <<whether a coordinate was given,    *)
(* format, decimalPlaces, latLonSeparator>> as the caller gave them.       *)

\* toDMS has returned from a call with a coordinate.
Formatted == call.fn = "toDMS" /\ written /= << >> /\ written[1]

\* The coordinate is a pair of numbers.
NumericPair == Len(call.arg) = 2 /\ isNumber(call.arg[1]) /\ isNumber(call.arg[2])

\* C16: toDMS fails with 'Not a valid coordinate' for a coordinate of any
\* length but 2, and called without a coordinate it throws as well.
LengthChecked ==
  (call.fn = "toDMS" /\ written /= << >>) =>
    /\ (written[1] /\ Len(call.arg) /= 2) => call.res = Throw("Not a valid coordinate")
    /\ ~written[1] => ~call.res.ok

\* C16, its case: a coordinate of three elements has been refused.
ThreeElementsRefused ==
  /\ Formatted
  /\ Len(call.arg) = 3
  /\ call.res = Throw("Not a valid coordinate")

\* C17: toDMS fails with 'Not a valid coordinate' for every value given
\* that is not a pair of numbers, a pair with an element that is not a
\* number included.
NonNumericPairRefused ==
  (Formatted /\ ~NumericPair) => call.res = Throw("Not a valid coordinate")

\* The format and the options in use when those not given are filled in as
\* the documentation says.
FormatInUse ==
  IF written[2] = Undefined THEN <<"D", "D", " ", "M", "M", " ", "s", "s", " ", "X">>
  ELSE written[2]

DecimalPlacesInUse == IF written[3] < 0 THEN 5 ELSE written[3]

SeparatorInUse == IF written[4] = Undefined THEN <<" ">> ELSE written[4]

\* C18: toDMS with a format or an option left out returns the text made
\* with 'DD MM ss X', decimalPlaces 5 and latLonSeparator ' ' in its place,
\* the options that were given kept.
DefaultsFilledIn ==
  (Formatted /\ Len(call.arg) = 2) =>
    call.res = Ok(formatPair(FormatInUse,
                             [decimalPlaces |-> DecimalPlacesInUse,
                              latLonSeparator |-> SeparatorInUse],
                             computeCoordinateConfig(call.arg)))

\* C18, its case: toDMS([149.128684, -35.282], undefined, {decimalPlaces:
\* 0}) has returned '35° 16′ 55″ S 149° 7′ 43″ E'.
OnlyDecimalPlacesGiven ==
  /\ Formatted
  /\ written = <<TRUE, Undefined, 0, Undefined>>
  /\ call.res = Ok(<<"3", "5", "deg", " ", "1", "6", "prime", " ", "5", "5", "dprime", " ", "S",
                     " ", "1", "4", "9", "deg", " ", "7", "prime", " ", "4", "3", "dprime", " ", "E">>)

\* The text of one axis: the format with the tokens replaced by the values
\* of that axis and X by its letter.
AxisText(value, X) ==
  formatFor(FormatInUse,
            [decimalPlaces |-> DecimalPlacesInUse, latLonSeparator |-> SeparatorInUse],
            computeFor(value), X)

\* C19: toDMS returns the text of the latitude, the separator as it was
\* given and the text of the longitude, each text made from the format and
\* the values of its own axis.
LatitudeSeparatorLongitude ==
  (Formatted /\ call.res.ok) =>
    \E ns \in {<<"N">>, <<"S">>}, ew \in {<<"E">>, <<"W">>} :
      call.res.val = AxisText(call.arg[2], ns) \o SeparatorInUse \o AxisText(call.arg[1], ew)

\* C19, its case: a latitude above 0 with the separator ' - ' has given
\* '89° 30′ 0″ N - 0° 0′ 0″ W'.
SeparatorKeptVerbatim ==
  /\ Formatted
  /\ written = <<TRUE, Undefined, 0, <<" ", "-", " ">>>>
  /\ call.res = Ok(<<"8", "9", "deg", " ", "3", "0", "prime", " ", "0", "dprime", " ", "N",
                     " ", "-", " ",
                     "0", "deg", " ", "0", "prime", " ", "0", "dprime", " ", "W">>)

\* Above 0.
Positive(x) == ~x.neg /\ ~IsZero(x)

\* C20: X is replaced by N for a latitude above 0 and by S otherwise, by E
\* for a longitude above 0 and by W otherwise, so 0 is written S and W.
HemisphereLetters ==
  (Formatted /\ NumericPair /\ written[2] = <<"X">>) =>
    call.res = Ok((IF Positive(call.arg[2]) THEN <<"N">> ELSE <<"S">>)
                    \o SeparatorInUse
                    \o (IF Positive(call.arg[1]) THEN <<"E">> ELSE <<"W">>))

\* C20, its case: [0, 0] with the format 'X' has given 'S W'.
ZeroIsSouthWest ==
  /\ Formatted
  /\ call.arg = <<Zero, Zero>>
  /\ written = <<TRUE, <<"X">>, 0 - 1, Undefined>>
  /\ call.res = Ok(<<"S", " ", "W">>)

-----------------------------------------------------------------------------
(* One axis, under SpecAxis: written is <<value>> for computeFor and        *)
(* <<value, format, decimalPlaces>> for formatFor.                          *)

AxisFormatted == call.fn = "formatFor"

\* The format with a mark in place of each '-'.
MinusMarked(f) == [i \in 1..Len(f) |-> IF f[i] = "-" THEN "~" ELSE f[i]]

\* The text of the absolute value for the format with its '-' marked.
AbsoluteText ==
  formatFor(MinusMarked(written[2]),
            [decimalPlaces |-> written[3], latLonSeparator |-> <<" ">>],
            computeFor(Abs(written[1])),
            IF Less(Zero, written[1]) THEN <<"N">> ELSE <<"S">>)

TokenLength(f, i) ==
  IF At(f, i) \in {"D", "d", "M", "m", "s"} /\ At(f, i + 1) = At(f, i) THEN 2
  ELSE IF At(f, i) \in {"D", "d", "M", "m", "s", "-", "X"} THEN 1
  ELSE 0

\* What the table of tokens gives for the token t.
TokenOutput(t, values, dp, X) ==
  CASE t = <<"D", "D">> -> NumberToString(values.degreesInt) \o <<"deg">>
    [] t = <<"d", "d">> -> toFixed(values.degrees, dp) \o <<"deg">>
    [] t = <<"D">> -> NumberToString(values.degreesInt)
    [] t = <<"d">> -> toFixed(values.degrees, dp)
    [] t = <<"M", "M">> -> NumberToString(values.minutesInt) \o <<"prime">>
    [] t = <<"m", "m">> -> toFixed(values.minutes, dp) \o <<"prime">>
    [] t = <<"M">> -> NumberToString(values.minutesInt)
    [] t = <<"m">> -> toFixed(values.minutes, dp)
    [] t = <<"s", "s">> -> toFixed(values.seconds, dp) \o <<"dprime">>
    [] t = <<"s">> -> toFixed(values.seconds, dp)
    [] t = <<"-">> -> IF Less(values.initValue, Zero) THEN <<"-">> ELSE << >>
    [] t = <<"X">> -> X

\* One pass over the format f from i: each longest token replaced once,
\* every other character kept.
RECURSIVE OnePass(_, _, _, _, _)
OnePass(f, i, values, dp, X) ==
  IF i > Len(f) THEN << >>
  ELSE IF TokenLength(f, i) = 0 THEN <<f[i]>> \o OnePass(f, i + 1, values, dp, X)
  ELSE TokenOutput(Slice(f, i, i + TokenLength(f, i) - 1), values, dp, X)
         \o OnePass(f, i + TokenLength(f, i), values, dp, X)

\* C22: the twelve substitutions made one after the other in the order of
\* the table give the text one pass from left to right gives that replaces
\* each longest token once: nothing an earlier substitution put in is
\* replaced by a later one.
SubstitutionsAsOnePass ==
  AxisFormatted =>
    call.res = OnePass(written[2], 1, computeFor(written[1]), written[3],
                       IF Less(Zero, written[1]) THEN <<"N">> ELSE <<"S">>)

\* C22, its case: -35.282 in the format 'DDD' has been written '35°35'.
LongestTokenFirst ==
  /\ AxisFormatted
  /\ written[1] = Literal10(TRUE, <<"3", "5">>, <<"2", "8", "2">>)
  /\ written[2] = <<"D", "D", "D">>
  /\ call.res = <<"3", "5", "deg", "3", "5">>

\* The least of the exponents of a, b and c.
LeastExponent(a, b, c) ==
  IF a.exp <= b.exp /\ a.exp <= c.exp THEN a.exp
  ELSE IF b.exp <= c.exp THEN b.exp ELSE c.exp

\* The magnitude of x as a whole number of units 2^e, e at most x.exp.
InUnits(x, e) == BNShiftLeft(x.man, x.exp - e)

\* a + b = c with nothing rounded, for a, b and c not below 0.
ExactSum(a, b, c) ==
  BNCmp(BNAdd(InUnits(a, LeastExponent(a, b, c)), InUnits(b, LeastExponent(a, b, c))),
        InUnits(c, LeastExponent(a, b, c))) = 0

IsInteger(x) == Floor(x) = x

WrittenBelowSixty ==
  (AxisFormatted /\ written[2] \in {<<"s", "s">>, <<"s">>, <<"m", "m">>, <<"m">>})
    => Less(parseFloat(call.res), Whole(60))

-----------------------------------------------------------------------------
(* The example of the README, under SpecToDMS.                             *)

\* C23: toDMS([-2.261, 59.20213888888889]) with the default format and
\* options returns 59°12'7.7"N 02°15'39.6"W, the text fromDMS gives that
\* coordinate for.
ReadmeExampleFormatted ==
  (/\ Formatted
   /\ call.arg = <<Literal10(TRUE, <<"2">>, <<"2", "6", "1">>),
                   Literal10(FALSE, <<"5", "9">>,
                             <<"2", "0", "2", "1", "3", "8", "8", "8", "8", "8", "8", "8", "8", "9">>)>>
   /\ written = <<TRUE, Undefined, 0 - 1, Undefined>>)
    => call.res = Ok(<<"5", "9", "deg", "1", "2", "'", "7", ".", "7", "dq", "N", " ",
                       "0", "2", "deg", "1", "5", "'", "3", "9", ".", "6", "dq", "W">>)

-----------------------------------------------------------------------------
(* The cut between the components and the range of the latitude, under     *)
(* SpecDMS.                                                                *)

\* C24: fromDMS searches the longitude from the index one before the end
\* of the latitude match when that match has a letter before its number,
\* else from its end, and of two components that each start with a
\* hemisphere letter the first letter gives the sign of the latitude and
\* the second that of the longitude.
LeadingLettersGiveSigns ==
  ParsedWritten =>
    /\ Remainder(call.arg)
         = Trim(Substr(Trim(call.arg),
                       Len(Match(Trim(call.arg)).m0)
                         - (IF written[1].lead /= "" THEN 1 ELSE 0)))
    /\ (/\ written[1].lead /= "" /\ written[2].lead /= ""
        /\ ~written[1].minus /\ ~written[2].minus
        /\ call.res.ok)
         => call.res.val = <<Times(HemisphereSign(written[2].lead), Magnitude(written[2])),
                             Times(HemisphereSign(written[1].lead), Magnitude(written[1]))>>

\* C25: fromDMS holds the first component to the ranges of degrees, minutes
\* and seconds only: with degrees above 90 and up to 180 it is accepted
\* and returned as the latitude.
LatitudeAboveNinetyAccepted ==
  (/\ ParsedWritten
   /\ written[1].deg > 900
   /\ RangeError(written[1]) = "" /\ RangeError(written[2]) = "")
    => /\ call.res.ok
       /\ Abs(call.res.val[2]) = Magnitude(written[1])
       /\ Less(Whole(90), Abs(call.res.val[2]))

\* C25, its case: '120° 2°W' has given the latitude 120.
LatitudeOfOneHundredTwenty ==
  /\ ParsedWritten
  /\ written = <<Component("", FALSE, 1200, 0 - 1, 0 - 1, ""),
                 Component("", FALSE, 20, 0 - 1, 0 - 1, "W")>>
  /\ call.res = Ok(<<Whole(0 - 2), Whole(120)>>)

-----------------------------------------------------------------------------
(* fromDMS on one component alone and on two components of degrees and     *)
(* minutes, under SpecLoose: written is <<component>> or <<first           *)
(* component, second component>>.                                          *)

\* fromDMS has returned from the text of one component alone.
ParsedSingle == call.fn = "fromDMS" /\ Len(written) = 1

\* fromDMS has returned from the text of two components of degrees and
\* minutes.
ParsedAdjacent == call.fn = "fromDMS" /\ Len(written) = 2

\* C29: for two components of degrees and minutes without seconds and
\* without hemisphere letters, a space between them, fromDMS returns
\* [D2 + M2/60, D1 + M1/60]: no digit of the second component's degrees
\* is taken as seconds of the first.
AdjacentMinutesParsed ==
  (/\ ParsedAdjacent
   /\ RangeError(written[1]) = "" /\ RangeError(written[2]) = "")
    => call.res = Ok(<<Times(ResolvedSign(written[2]), Magnitude(written[2])),
                       Times(ResolvedSign(written[1]), Magnitude(written[1]))>>)

\* C30: fromDMS fails with 'Could not parse string' on every text that is
\* one component alone, with or without a minus sign and a hemisphere
\* letter before or after it.
SingleComponentRefused ==
  ParsedSingle => call.res = Throw(PARSE_STRING)

\* C27: a component alone whose numbers are out of range fails with 'Could
\* not parse string', and of two components that are both out of range
\* the failure reported is that of the second, the longitude.
LongitudeValidatedFirst ==
  /\ (ParsedSingle /\ RangeError(written[1]) /= "")
       => call.res = Throw(PARSE_STRING)
  /\ (/\ ParsedAdjacent
      /\ RangeError(written[1]) /= "" /\ RangeError(written[2]) /= "")
       => call.res = Throw(RangeError(written[2]))

=============================================================================
